---- MODULE Spec2Model ----
(***************************************************************************)
(* kaart-kompaan: a four-player partnership trick-taking game (round.rs,   *)
(* game.rs) and the random baseline player.  A Stack (bitboard) is the set *)
(* of the indices of its set bits: | is union, & is intersection and ^ is  *)
(* symmetric difference.                                                    *)
(***************************************************************************)
EXTENDS Integers, Sequences, FiniteSets, TLC

\* ---------------------------------------------------------------- bounds
\* cards per suit, which is also the number of cards per hand and of tricks
\* per round (8 in the program)
NumRanks == 2
\* the generator states (seeds) a deal is drawn from: 0..MaxSeed
MaxSeed == 5
\* the generator states (seeds) a determinization shuffle is drawn from
MaxShuffleSeed == 1
\* iterations of one search (the iteration budget of a decision)
MaxIters == 4
\* a search is started at most this many actions after the start of a round,
\* or at most this many actions before its end
MaxRootDepth == 2

\* ------------------------------------------------------------- constants
NumSuits == 4
NumPlayers == 4
NumCards == NumSuits * NumRanks

Players == 0..(NumPlayers - 1)
Suits == 0..(NumSuits - 1)
Seeds == 0..MaxSeed
ShuffleSeeds == 0..MaxShuffleSeed
\* Option::None of Option<Suite> and Option<usize>
None == -1

\* ------------------------------------------------------- Stack / Card / Suite
ALL == 0..(NumCards - 1)
EmptyStack == {}

Xor(a, b) == (a \ b) \cup (b \ a)

suite(card) == card \div NumRanks
rank(card) == card % NumRanks
mask(s) == {c \in ALL : suite(c) = s}
has_suite(cards, s) == (cards \cap mask(s)) # {}
all_above(card) == {c \in ALL : suite(c) = suite(card) /\ rank(c) > rank(card)}

\* point value of a rank: the five highest ranks count 1..5, the others 0
value(card) ==
    LET v == rank(card) + 6 - NumRanks IN IF v > 0 THEN v - 1 ELSE 0

RECURSIVE SumValues(_)
SumValues(cards) ==
    IF cards = {} THEN 0
    ELSE LET c == CHOOSE x \in cards : TRUE IN value(c) + SumValues(cards \ {c})

DeckValue == SumValues(ALL)

\* ------------------------------------------------------------------ romu
\* The process-wide generator is seeded; romu_state(seed, t) is its state
\* after t draws and mod_usize reduces draw number t to 0..k-1.
RECURSIVE romu_state(_, _)
romu_state(seed, t) ==
    IF t = 0 THEN seed ELSE (romu_state(seed, t - 1) * 33 + 7) % 251

mod_usize(seed, t, k) == romu_state(seed, t + 1) % k

\* ----------------------------------------------------------------- Trick
EmptyTrick == [trump |-> None, cards |-> <<>>]

\* c beats the card w that wins so far
Beats(trump, c, w) ==
    \/ suite(c) = suite(w) /\ rank(c) > rank(w)
    \/ suite(c) = trump /\ suite(w) # trump

RECURSIVE WinnerUpTo(_, _)
WinnerUpTo(trick, k) ==
    IF k = 0 THEN <<>>
    ELSE IF k = 1 THEN trick.cards[1]
    ELSE LET w == WinnerUpTo(trick, k - 1) IN
         IF Beats(trick.trump, trick.cards[k][1], w[1]) THEN trick.cards[k] ELSE w

\* Option<(Card, usize)>: <<>> is None, <<card, player>> is Some
winner(trick) == WinnerUpTo(trick, Len(trick.cards))
suite_to_follow(trick) ==
    IF Len(trick.cards) = 0 THEN None ELSE suite(trick.cards[1][1])
is_finished(trick) == Len(trick.cards) = NumPlayers
score(trick) == SumValues({trick.cards[k][1] : k \in 1..Len(trick.cards)})
play(trick, card, player) == [trick EXCEPT !.cards = Append(@, <<card, player>>)]
clear(trick) == [trick EXCEPT !.cards = <<>>]
trick_set_trump(trick, trump) == [trick EXCEPT !.trump = trump]

\* ---------------------------------------------------------------- Action
PlayCard(card) == [type |-> "PlayCard", arg |-> card]
PickTrump(trump) == [type |-> "PickTrump", arg |-> trump]
\* Option::None of Option<Action>
NoAction == [type |-> "None", arg |-> None]

\* -------------------------------------------------------------- Round
DefaultRound ==
    [turn |-> 0, dealer |-> 0,
     player_cards |-> [p \in Players |-> EmptyStack],
     played_cards |-> EmptyStack,
     scores |-> [t \in 0..1 |-> 0],
     trick |-> EmptyTrick,
     phase |-> "PickTrump"]

set_dealer(r, dealer) == [r EXCEPT !.dealer = dealer, !.turn = (dealer + 1) % 4]

Swap(f, i, j) == [f EXCEPT ![i] = f[j], ![j] = f[i]]

RECURSIVE DealLoop(_, _, _, _)
DealLoop(indices, cards, i, seed) ==
    LET n == NumCards \div 4 IN
    IF i < n THEN cards
    ELSE LET j == mod_usize(seed, 4 * n - 1 - i, i + 1)
             swapped == Swap(indices, i, j)
         IN DealLoop(swapped,
                     [cards EXCEPT ![(i \div n) - 1] = @ \cup {swapped[i]}],
                     i - 1, seed)

\* mutant: the last hand is computed without the third dealt hand
deal_cards_forgets_third(r, seed) ==
    LET n == NumCards \div 4
        cards == DealLoop([i \in 0..(NumCards - 1) |-> i],
                          [k \in 0..2 |-> EmptyStack], 4 * n - 1, seed)
    IN [r EXCEPT !.player_cards =
            [p \in Players |->
                IF p < 3 THEN cards[p]
                ELSE Xor(Xor(ALL, cards[0]), cards[1])]]

deal_cards(r, seed) ==
    LET n == NumCards \div 4
        cards == DealLoop([i \in 0..(NumCards - 1) |-> i],
                          [k \in 0..2 |-> EmptyStack], 4 * n - 1, seed)
    IN [r EXCEPT !.player_cards =
            [p \in Players |->
                IF p < 3 THEN cards[p]
                ELSE Xor(Xor(Xor(ALL, cards[0]), cards[1]), cards[2])]]

new(dealer, seed) == deal_cards(set_dealer(DefaultRound, dealer), seed)

\* mutant: the played cards are not reset
setup_for_next_round_keeps_played(r, seed) ==
    LET next_dealer == (r.dealer + 1) % 4
        dealt == deal_cards(set_dealer(r, next_dealer), seed)
    IN [dealt EXCEPT !.scores = [t \in 0..1 |-> 0],
                     !.trick = clear(dealt.trick),
                     !.phase = "PickTrump"]

setup_for_next_round(r, seed) ==
    LET next_dealer == (r.dealer + 1) % 4
        dealt == deal_cards(set_dealer(r, next_dealer), seed)
    IN [dealt EXCEPT !.played_cards = EmptyStack,
                     !.scores = [t \in 0..1 |-> 0],
                     !.trick = clear(dealt.trick),
                     !.phase = "PickTrump"]

\* mutant: the score of the trick overwrites the score of the team
on_trick_finish_overwrites(r) ==
    LET w == winner(r.trick)[2]
        winning_team == w % 2
    IN [r EXCEPT !.scores[winning_team] = score(r.trick),
                 !.turn = w,
                 !.trick = clear(r.trick)]

\* mutant: the next turn is the successor of the last player
on_trick_finish_sequential(r) ==
    LET w == winner(r.trick)[2]
        winning_team == w % 2
    IN [r EXCEPT !.scores[winning_team] = @ + score(r.trick),
                 !.turn = (r.turn + 1) % 4,
                 !.trick = clear(r.trick)]

\* mutant: the trick is replaced by a default trick
on_trick_finish_resets_trick(r) ==
    LET w == winner(r.trick)[2]
        winning_team == w % 2
    IN [r EXCEPT !.scores[winning_team] = @ + score(r.trick),
                 !.turn = w,
                 !.trick = EmptyTrick]

on_trick_finish(r) ==
    LET w == winner(r.trick)[2]
        winning_team == w % 2
    IN [r EXCEPT !.scores[winning_team] = @ + score(r.trick),
                 !.turn = w,
                 !.trick = clear(r.trick)]

\* mutant: the card is not added to the played cards
play_card_not_recorded(r, card) ==
    LET r1 == [r EXCEPT !.trick = play(r.trick, card, r.turn),
                        !.player_cards[r.turn] = Xor(@, {card})]
    IN IF is_finished(r1.trick) THEN on_trick_finish(r1)
       ELSE [r1 EXCEPT !.turn = (r1.turn + 1) % 4]

\* mutant: the turn does not move on within a trick
play_card_same_turn(r, card) ==
    LET r1 == [r EXCEPT !.trick = play(r.trick, card, r.turn),
                        !.played_cards = @ \cup {card},
                        !.player_cards[r.turn] = Xor(@, {card})]
    IN IF is_finished(r1.trick) THEN on_trick_finish(r1)
       ELSE r1

play_card(r, card) ==
    LET r1 == [r EXCEPT !.trick = play(r.trick, card, r.turn),
                        !.played_cards = @ \cup {card},
                        !.player_cards[r.turn] = Xor(@, {card})]
    IN IF is_finished(r1.trick) THEN on_trick_finish(r1)
       ELSE [r1 EXCEPT !.turn = (r1.turn + 1) % 4]

\* mutant: the phase is not switched
set_trump_keeps_phase(r, trump) ==
    [r EXCEPT !.trick = trick_set_trump(r.trick, trump)]

set_trump(r, trump) ==
    [r EXCEPT !.trick = trick_set_trump(r.trick, trump), !.phase = "PlayCards"]

\* mutant: the led suit is not enforced
possible_card_actions_no_follow(r) ==
    LET cards1 == r.player_cards[r.turn]
        w == winner(r.trick)
        cards2 ==
            IF w # <<>> /\ (w[2] % 2) # (r.turn % 2)
            THEN LET winning_card == w[1]
                     above == all_above(winning_card) \cap mask(suite(winning_card))
                     m == IF r.trick.trump # None /\ suite(winning_card) # r.trick.trump
                          THEN above \cup mask(r.trick.trump)
                          ELSE above
                 IN IF (cards1 \cap m) # {} THEN cards1 \cap m ELSE cards1
            ELSE cards1
    IN [kind |-> "Cards", bits |-> cards2]

\* mutant: a losing team need not play a higher card
possible_card_actions_no_overtrump(r) ==
    LET hand == r.player_cards[r.turn]
        follow == suite_to_follow(r.trick)
        cards1 == IF follow # None /\ (hand \cap mask(follow)) # {}
                  THEN hand \cap mask(follow) ELSE hand
    IN [kind |-> "Cards", bits |-> cards1]

\* mutant: the must-beat mask itself becomes the candidate set
possible_card_actions_mask_only(r) ==
    LET hand == r.player_cards[r.turn]
        follow == suite_to_follow(r.trick)
        cards1 == IF follow # None /\ (hand \cap mask(follow)) # {}
                  THEN hand \cap mask(follow) ELSE hand
        w == winner(r.trick)
        cards2 ==
            IF w # <<>> /\ (w[2] % 2) # (r.turn % 2)
            THEN LET winning_card == w[1]
                     above == all_above(winning_card) \cap mask(suite(winning_card))
                     m == IF r.trick.trump # None /\ suite(winning_card) # r.trick.trump
                          THEN above \cup mask(r.trick.trump)
                          ELSE above
                 IN IF (cards1 \cap m) # {} THEN m ELSE cards1
            ELSE cards1
    IN [kind |-> "Cards", bits |-> cards2]

possible_card_actions(r) ==
    LET hand == r.player_cards[r.turn]
        follow == suite_to_follow(r.trick)
        cards1 == IF follow # None /\ (hand \cap mask(follow)) # {}
                  THEN hand \cap mask(follow) ELSE hand
        w == winner(r.trick)
        cards2 ==
            IF w # <<>> /\ (w[2] % 2) # (r.turn % 2)
            THEN LET winning_card == w[1]
                     above == all_above(winning_card) \cap mask(suite(winning_card))
                     m == IF r.trick.trump # None /\ suite(winning_card) # r.trick.trump
                          THEN above \cup mask(r.trick.trump)
                          ELSE above
                 IN IF (cards1 \cap m) # {} THEN cards1 \cap m ELSE cards1
            ELSE cards1
    IN [kind |-> "Cards", bits |-> cards2]

possible_trump_actions(r) ==
    [kind |-> "Trumps",
     bits |-> {s \in Suits : has_suite(r.player_cards[r.dealer], s)}]

turn(r) == IF r.phase = "PickTrump" THEN r.dealer ELSE r.turn

possible_actions(r) ==
    IF r.phase = "PickTrump" THEN possible_trump_actions(r)
    ELSE possible_card_actions(r)

apply_action(r, action) ==
    IF action.type = "PlayCard" THEN play_card(r, action.arg)
    ELSE set_trump(r, action.arg)

is_terminal(r) == r.played_cards = ALL

\* f32 rewards are counted in halves: 2 is 1.0, 1 is 0.5 and 0 is 0.0
\* mutant: the perspective is ignored
reward_ignores_perspective(r, perspective) ==
    LET team == 0 IN
    IF r.scores[team] > r.scores[1 - team] THEN 2
    ELSE IF r.scores[team] < r.scores[1 - team] THEN 0
    ELSE 1

reward(r, perspective) ==
    LET team == perspective % 2 IN
    IF r.scores[team] > r.scores[1 - team] THEN 2
    ELSE IF r.scores[team] < r.scores[1 - team] THEN 0
    ELSE 1

\* romu::shuffle: the cards in ascending order, shuffled in place by draws
\* of the generator; a sequence indexed from 1
RECURSIVE Ascending(_)
Ascending(cards) ==
    IF cards = {} THEN <<>>
    ELSE LET lo == CHOOSE c \in cards : \A d \in cards : c <= d
         IN <<lo>> \o Ascending(cards \ {lo})

RECURSIVE ShuffleLoop(_, _, _)
ShuffleLoop(indices, i, seed) ==
    IF i < 2 THEN indices
    ELSE LET j == mod_usize(seed, Len(indices) - i, i) + 1
         IN ShuffleLoop(Swap(indices, i, j), i - 1, seed)

shuffle(indices, seed) == ShuffleLoop(indices, Len(indices), seed)

from_slice(indices, start, n) == {indices[k] : k \in (start + 1)..(start + n)}

\* start of the slice of the i-th player after the observer
RECURSIVE SliceStart(_, _, _)
SliceStart(r, observer, i) ==
    IF i = 1 THEN 0
    ELSE SliceStart(r, observer, i - 1)
         + Cardinality(r.player_cards[(observer + i - 1) % 4])

\* mutant: the played cards are dealt again
randomize_deals_played(r, observer, seed) ==
    LET cards_to_deal == Xor(ALL, r.player_cards[observer])
        indices == shuffle(Ascending(cards_to_deal), seed)
    IN [r EXCEPT !.player_cards =
            [p \in Players |->
                IF p = observer THEN r.player_cards[p]
                ELSE LET i == (p + 4 - observer) % 4
                         n == Cardinality(r.player_cards[p])
                     IN from_slice(indices, SliceStart(r, observer, i), n)]]

randomize(r, observer, seed) ==
    LET cards_to_deal == Xor(Xor(ALL, r.player_cards[observer]), r.played_cards)
        indices == shuffle(Ascending(cards_to_deal), seed)
    IN [r EXCEPT !.player_cards =
            [p \in Players |->
                IF p = observer THEN r.player_cards[p]
                ELSE LET i == (p + 4 - observer) % 4
                         n == Cardinality(r.player_cards[p])
                     IN from_slice(indices, SliceStart(r, observer, i), n)]]

\* ------------------------------------------------------ ActionCollection
\* Cards(stack): one PlayCard per set bit.  Trumps(bits): bit s < 4 is
\* PickTrump(Some(s)), bit 4 is the "no trump" flag, PickTrump(None).
NoTrumpBit == 4
Members(list) ==
    IF list.kind = "Cards" THEN {PlayCard(c) : c \in list.bits}
    ELSE {PickTrump(IF b = NoTrumpBit THEN None ELSE b) : b \in list.bits}
has(list, action) == action \in Members(list)
len(list) == Cardinality(list.bits)

\* ------------------------------------------------------------ Node / Edge
\* An edge is <<action, actor>>; the root has none (<<>>).  A node records
\* the actions tried at it; its untried actions are legal.without(tried).
NewNode(edge, parent_id, terminal) ==
    [edge |-> edge, parent |-> parent_id, children |-> <<>>,
     terminal |-> terminal, num_sims |-> 0, score |-> 0, tried |-> {}]
add_child(node, child_id) == [node EXCEPT !.children = Append(@, child_id)]
untried_actions(node, legal_actions) == Members(legal_actions) \ node.tried
has_untried_actions(node, legal_actions) ==
    untried_actions(node, legal_actions) # {}
update(node, r) == [node EXCEPT !.num_sims = @ + 1, !.score = @ + r]

\* pop_random of a collection given as a set of actions: the generator
\* seeded with seed picks the member at its draw number t, in ascending order
RECURSIVE NthAction(_, _)
NthAction(actions, n) ==
    LET lowest == CHOOSE a \in actions : \A b \in actions : a.arg <= b.arg
    IN IF n = 0 THEN lowest ELSE NthAction(actions \ {lowest}, n - 1)

pop_random(actions, seed, t) ==
    IF actions = {} THEN NoAction
    ELSE NthAction(actions, mod_usize(seed, t, Cardinality(actions)))

\* the draw number used at a state: past the draws of the shuffle
DrawAt(r) ==
    NumCards + Cardinality(r.played_cards) + (IF r.phase = "PlayCards" THEN 1 ELSE 0)

\* ------------------------------------------------------------------ Tree
\* node id i is nodes[i + 1]
EmptyTree == [nodes |-> <<>>, index |-> 0]
NodeOf(t, node_id) == t.nodes[node_id + 1]
get_edge(t, node_id) == NodeOf(t, node_id).edge
get_parent_id(t, node_id) == NodeOf(t, node_id).parent
tree_is_terminal(t, node_id) == NodeOf(t, node_id).terminal
is_fully_expanded(t, node_id, legal_actions) ==
    ~has_untried_actions(NodeOf(t, node_id), legal_actions)
reset(t) == EmptyTree

\* mutant: the new node is not linked to its parent
add_node_unlinked(t, state, edge, parent_id) ==
    LET node_id == t.index
        node == NewNode(edge, parent_id, is_terminal(state))
    IN <<[nodes |-> Append(t.nodes, node), index |-> t.index + 1], node_id>>

\* mutant: index is not advanced
add_node_keeps_index(t, state, edge, parent_id) ==
    LET node_id == t.index
        linked == IF parent_id # None
                  THEN [t.nodes EXCEPT ![parent_id + 1] = add_child(@, node_id)]
                  ELSE t.nodes
        node == NewNode(edge, parent_id, is_terminal(state))
    IN <<[nodes |-> Append(linked, node), index |-> t.index], node_id>>

\* <<tree, node_id>>
add_node(t, state, edge, parent_id) ==
    LET node_id == t.index
        linked == IF parent_id # None
                  THEN [t.nodes EXCEPT ![parent_id + 1] = add_child(@, node_id)]
                  ELSE t.nodes
        node == NewNode(edge, parent_id, is_terminal(state))
    IN <<[nodes |-> Append(linked, node), index |-> t.index + 1], node_id>>

\* mutant: the node is left as it was
update_node_skipped(t, node_id, r) == t

update_node(t, node_id, r) ==
    [t EXCEPT !.nodes[node_id + 1] = update(@, r)]

\* the children whose edge action is legal, in the order of child_ids
LegalChildren(t, node_id, legal_actions) ==
    SelectSeq(NodeOf(t, node_id).children,
              LAMBDA c : has(legal_actions, get_edge(t, c)[1]))

Range(seq) == {seq[n] : n \in 1..Len(seq)}

\* uct_score is finite only for positive visit counts of parent and child;
\* max_by compares scores when there are at least two candidates
ScoresComparable(t, node_id, candidates) ==
    \/ Len(candidates) < 2
    \/ /\ NodeOf(t, node_id).num_sims > 0
       /\ \A c \in Range(candidates) : NodeOf(t, c).num_sims > 0

\* mutant: the children are not filtered by the legal actions
uct_select_child_unfiltered(t, node_id, legal_actions) ==
    Range(NodeOf(t, node_id).children)

\* uct_select_child: the set of children that can have the greatest score
\* ({} is None); the order of two f32 scores is not computed
uct_select_child(t, node_id, legal_actions) ==
    Range(LegalChildren(t, node_id, legal_actions))

\* select: the set of its outcomes [node, state, fail]
RECURSIVE SelectLoop(_, _, _, _)
SelectLoop(t, node_id, state, legal_actions) ==
    IF ~tree_is_terminal(t, node_id) /\ is_fully_expanded(t, node_id, legal_actions)
    THEN LET candidates == LegalChildren(t, node_id, legal_actions)
             best == uct_select_child(t, node_id, legal_actions)
         IN IF best = {}
            THEN {[node |-> node_id, state |-> state, fail |-> "unwrap"]}
            ELSE IF ~ScoresComparable(t, node_id, candidates)
            THEN {[node |-> node_id, state |-> state, fail |-> "partial_cmp"]}
            ELSE UNION {
                LET applied == apply_action(state, get_edge(t, c)[1])
                IN IF is_terminal(applied)
                   THEN {[node |-> c, state |-> applied, fail |-> "none"]}
                   ELSE SelectLoop(t, c, applied, possible_actions(applied))
                : c \in best}
    ELSE {[node |-> node_id, state |-> state, fail |-> "none"]}

select(t, node_id, state) == SelectLoop(t, node_id, state, possible_actions(state))

\* expand: [tree, node, state]
\* mutant: the edge records the actor after the action was applied
expand_actor_after(t, node_id, state, seed) ==
    IF is_terminal(state) THEN [tree |-> t, node |-> node_id, state |-> state]
    ELSE LET legal_actions == possible_actions(state)
             action == pop_random(untried_actions(NodeOf(t, node_id), legal_actions),
                                  seed, DrawAt(state))
         IN IF action = NoAction THEN [tree |-> t, node |-> node_id, state |-> state]
            ELSE LET popped == [t EXCEPT !.nodes[node_id + 1].tried = @ \cup {action}]
                     applied == apply_action(state, action)
                     actor == turn(applied)
                     added == add_node(popped, applied, <<action, actor>>, node_id)
                 IN [tree |-> added[1], node |-> added[2], state |-> applied]

\* [tree, node, state]: the arena, the returned node id and the state after
\* expand; seed is the state of the generator pop_action draws from
expand(t, node_id, state, seed) ==
    IF is_terminal(state) THEN [tree |-> t, node |-> node_id, state |-> state]
    ELSE LET legal_actions == possible_actions(state)
             action == pop_random(untried_actions(NodeOf(t, node_id), legal_actions),
                                  seed, DrawAt(state))
         IN IF action = NoAction THEN [tree |-> t, node |-> node_id, state |-> state]
            ELSE LET popped == [t EXCEPT !.nodes[node_id + 1].tried = @ \cup {action}]
                     actor == turn(state)
                     applied == apply_action(state, action)
                     added == add_node(popped, applied, <<action, actor>>, node_id)
                 IN [tree |-> added[1], node |-> added[2], state |-> applied]

\* max_by_key: the last of the candidates with the greatest key
RECURSIVE MaxByKey(_, _, _)
MaxByKey(t, candidates, n) ==
    IF n = 1 THEN candidates[1]
    ELSE LET m == MaxByKey(t, candidates, n - 1)
         IN IF NodeOf(t, candidates[n]).num_sims >= NodeOf(t, m).num_sims
            THEN candidates[n] ELSE m

\* mutant: the filter keeps the children whose action is not legal
best_action_filter_negated(t, node_id, state) ==
    LET candidates == SelectSeq(NodeOf(t, node_id).children,
                          LAMBDA c : ~has(possible_actions(state), get_edge(t, c)[1]))
    IN IF Len(candidates) = 0 THEN [action |-> NoAction, fail |-> "best_action"]
       ELSE [action |-> get_edge(t, MaxByKey(t, candidates, Len(candidates)))[1],
             fail |-> "none"]

\* max_by of the average score, the last of the greatest
RECURSIVE MaxByAverage(_, _, _)
MaxByAverage(t, candidates, n) ==
    IF n = 1 THEN candidates[1]
    ELSE LET m == MaxByAverage(t, candidates, n - 1)
             x == NodeOf(t, candidates[n])
             y == NodeOf(t, m)
         IN IF x.score * y.num_sims >= y.score * x.num_sims
            THEN candidates[n] ELSE m

\* mutant: the child with the highest average score is returned
best_action_highest_average(t, node_id, state) ==
    LET candidates == LegalChildren(t, node_id, possible_actions(state))
    IN IF Len(candidates) = 0 THEN [action |-> NoAction, fail |-> "best_action"]
       ELSE [action |-> get_edge(t, MaxByAverage(t, candidates, Len(candidates)))[1],
             fail |-> "none"]

\* best_action: [action, fail]
best_action(t, node_id, state) ==
    LET candidates == LegalChildren(t, node_id, possible_actions(state))
    IN IF Len(candidates) = 0 THEN [action |-> NoAction, fail |-> "best_action"]
       ELSE [action |-> get_edge(t, MaxByKey(t, candidates, Len(candidates)))[1],
             fail |-> "none"]

\* --------------------------------------------------------- search player
\* the random default policy played to the end of the round
RECURSIVE Rollout(_, _)
Rollout(state, seed) ==
    IF is_terminal(state) THEN state
    ELSE Rollout(apply_action(state,
                     pop_random(Members(possible_actions(state)), seed, DrawAt(state))),
                 seed)

\* update_node at node_id and at every ancestor; each node is credited with
\* the reward of the actor of its edge, the root with that of the observer
RECURSIVE Backpropagate(_, _, _, _)
Backpropagate(t, node_id, final, observer) ==
    LET edge == get_edge(t, node_id)
        r == reward(final, IF edge = <<>> THEN observer ELSE edge[2])
        updated == update_node(t, node_id, r)
    IN IF get_parent_id(t, node_id) = None THEN updated
       ELSE Backpropagate(updated, get_parent_id(t, node_id), final, observer)

\* n actions of random players from state, fewer if the round ends
RECURSIVE PlayRandom(_, _, _)
PlayRandom(state, seed, n) ==
    IF n = 0 \/ is_terminal(state) THEN state
    ELSE PlayRandom(apply_action(state,
                        pop_random(Members(possible_actions(state)), seed, DrawAt(state))),
                    seed, n - 1)

\* the state a decision is asked for: depth actions of random players into
\* the round dealt from seed
RootState(dealer, seed, depth) == PlayRandom(new(dealer, seed), seed, depth)

\* ------------------------------------------------------------------ Game
\* GameState is the Round; a RandomPlayer keeps its own view of its hand.
set_random_dealer(r, dealer) == set_dealer(r, dealer)
cards(r, i) == r.player_cards[i]
toggle_card(hand, index) == Xor(hand, {index})
is_legal(r, action) == has(possible_actions(r), action)
\* number of tricks play_round plays
TricksPerRound == NumCards \div NumPlayers

\* ----------------------------------------------------------------- state
VARIABLES
    round,      \* the Round (the Game's state)
    sample,     \* <<observer, randomize(observer)>> handed to a decision, or <<>>
    players,    \* Game.players: each player's view of its own hand
    pc,         \* position of the Game: "none", "new", "tricks", "returned", "panicked"
    failure,    \* which fatal check fired: "none", "unwrap", "assert", "unreachable"
    trick_no,   \* play_round: tricks played so far
    lo,         \* play_trick: start of the range of i
    k,          \* play_trick: iterations done in this trick
    entry_dealer, \* play_round: the dealer read on entry, None before
    tree,       \* the arena of the search
    spc,        \* position of the search: "idle", "determinize", "select",
                \* "expand", "rollout", "backprop", "best", "done", "panicked"
    iters,      \* iterations completed
    iter_seed,  \* the generator state of the current iteration
    det,        \* the determinized state select was called with
    sim,        \* the live state of the current iteration
    cur,        \* the node the current iteration has reached
    tfail,      \* which fatal check of the search fired: "none", "unwrap" and
                \* "partial_cmp" (select), "best_action"
    best        \* the action best_action returned, NoAction before

gameVars == <<players, pc, failure, trick_no, lo, k, entry_dealer>>
treeVars == <<tree, spc, iters, iter_seed, det, sim, cur, tfail, best>>
vars == <<round, sample, gameVars, treeVars>>

TreeIdle ==
    /\ tree = EmptyTree
    /\ spc = "idle"
    /\ iters = 0
    /\ iter_seed = 0
    /\ det = DefaultRound
    /\ sim = DefaultRound
    /\ cur = 0
    /\ tfail = "none"
    /\ best = NoAction

\* ---- a Round driven through its State interface
Init ==
    /\ \E dealer \in Players, seed \in Seeds : round = new(dealer, seed)
    /\ sample = <<>>
    /\ players = [p \in Players |-> EmptyStack]
    /\ pc = "none"
    /\ failure = "none"
    /\ trick_no = 0
    /\ lo = 0
    /\ k = 0
    /\ entry_dealer = None
    /\ TreeIdle

ApplyAction ==
    /\ \E action \in Members(possible_actions(round)) :
            round' = apply_action(round, action)
    /\ sample' = <<>>
    /\ UNCHANGED <<gameVars, treeVars>>

Randomize ==
    /\ sample = <<>>
    /\ \E observer \in Players, seed \in ShuffleSeeds :
            sample' = <<observer, randomize(round, observer, seed)>>
    /\ UNCHANGED <<round, gameVars, treeVars>>

Next == ApplyAction \/ Randomize

Spec == Init /\ [][Next]_vars

\* ---- a match: rounds played one after the other on one Round
SetupForNextRound ==
    /\ \E seed \in Seeds : round' = setup_for_next_round(round, seed)
    /\ sample' = <<>>
    /\ UNCHANGED <<gameVars, treeVars>>

NextMatch == ApplyAction \/ SetupForNextRound

SpecMatch == Init /\ [][NextMatch]_vars

\* ---- Game::new, Game::play_round and Game::play_trick with random players
GameNew(seed, dealer) ==
    LET state == set_random_dealer(deal_cards(DefaultRound, seed), dealer)
    IN /\ round = state
       /\ players = [i \in Players |-> cards(state, i)]

InitGame ==
    /\ \E dealer \in Players, seed \in Seeds : GameNew(seed, dealer)
    /\ sample = <<>>
    /\ pc = "new"
    /\ failure = "none"
    /\ trick_no = 0
    /\ lo = 0
    /\ k = 0
    /\ entry_dealer = None
    /\ TreeIdle

Panic(why) ==
    /\ pc' = "panicked"
    /\ failure' = why
    /\ UNCHANGED <<round, sample, players, trick_no, lo, k, entry_dealer, treeVars>>

\* the dealer decides and the action is applied
PlayRoundPick ==
    /\ pc = "new"
    /\ LET list == possible_actions(round) IN
       IF len(list) = 0 THEN Panic("unwrap")
       ELSE \E action \in Members(list) :
                /\ round' = apply_action(round, action)
                /\ entry_dealer' = round.dealer
                /\ pc' = IF TricksPerRound = 0 THEN "returned" ELSE "tricks"
                /\ UNCHANGED <<sample, players, failure, trick_no, lo, k, treeVars>>

\* mutant: the turn is read again in every iteration of the loop
PlayTrickStep_rereads_turn ==
    /\ pc = "tricks"
    /\ LET start == turn(round)
           player_idx == (start + k) % 4
           list == possible_actions(round)
       IN IF len(list) = 0 THEN Panic("unwrap")
          ELSE \E action \in Members(list) :
                IF action.type # "PlayCard" THEN Panic("unreachable")
                ELSE IF ~is_legal(round, action) THEN Panic("assert")
                ELSE /\ round' = apply_action(round, action)
                     /\ players' = [players EXCEPT ![player_idx] =
                                        toggle_card(@, action.arg)]
                     /\ lo' = start
                     /\ k' = (k + 1) % 4
                     /\ trick_no' = IF k = 3 THEN trick_no + 1 ELSE trick_no
                     /\ pc' = IF k = 3 /\ trick_no + 1 = TricksPerRound
                              THEN "returned" ELSE "tricks"
                     /\ UNCHANGED <<sample, failure, entry_dealer, treeVars>>

\* one iteration of the loop of play_trick
PlayTrickStep ==
    /\ pc = "tricks"
    /\ LET start == IF k = 0 THEN turn(round) ELSE lo
           player_idx == (start + k) % 4
           list == possible_actions(round)
       IN IF len(list) = 0 THEN Panic("unwrap")
          ELSE \E action \in Members(list) :
                IF action.type # "PlayCard" THEN Panic("unreachable")
                ELSE IF ~is_legal(round, action) THEN Panic("assert")
                ELSE /\ round' = apply_action(round, action)
                     /\ players' = [players EXCEPT ![player_idx] =
                                        toggle_card(@, action.arg)]
                     /\ lo' = start
                     /\ k' = (k + 1) % 4
                     /\ trick_no' = IF k = 3 THEN trick_no + 1 ELSE trick_no
                     /\ pc' = IF k = 3 /\ trick_no + 1 = TricksPerRound
                              THEN "returned" ELSE "tricks"
                     /\ UNCHANGED <<sample, failure, entry_dealer, treeVars>>

NextGame == PlayRoundPick \/ PlayTrickStep

SpecGame == InitGame /\ [][NextGame]_vars /\ WF_vars(NextGame)

\* the actions of one round: the trump pick and one action per card
RoundLength == 1 + NumCards
RootDepths ==
    (0..MaxRootDepth) \cup ((RoundLength - MaxRootDepth)..(RoundLength - 1))

\* ---- one decision of a search player: a fresh arena, MaxIters iterations
\* of determinize, select, expand, rollout and backpropagation, best_action
Observer == turn(round)

InitTree ==
    /\ \E seed \in Seeds, depth \in RootDepths :
          round = RootState(seed % 4, seed, depth)
    /\ sample = <<>>
    /\ players = [p \in Players |-> EmptyStack]
    /\ pc = "none"
    /\ failure = "none"
    /\ trick_no = 0
    /\ lo = 0
    /\ k = 0
    /\ entry_dealer = None
    /\ TreeIdle

TreePanic(why) ==
    /\ spc' = "panicked"
    /\ tfail' = why
    /\ UNCHANGED <<tree, iters, iter_seed, det, sim, cur, best>>

\* the arena is reset and the root node is built, for the first decision or
\* for the same decision asked again after an answer
StartSearch ==
    /\ UNCHANGED <<round, sample, gameVars>>
    /\ spc \in {"idle", "done"}
    /\ tree' = add_node(reset(tree), round, <<>>, None)[1]
    /\ spc' = IF MaxIters = 0 THEN "best" ELSE "determinize"
    /\ iters' = 0
    /\ iter_seed' = 0
    /\ det' = DefaultRound
    /\ sim' = DefaultRound
    /\ cur' = 0
    /\ tfail' = "none"
    /\ best' = NoAction

Determinize ==
    /\ UNCHANGED <<round, sample, gameVars>>
    /\ spc = "determinize"
    /\ \E seed \in ShuffleSeeds :
          /\ iter_seed' = seed
          /\ det' = randomize(round, Observer, seed)
          /\ sim' = randomize(round, Observer, seed)
    /\ spc' = "select"
    /\ UNCHANGED <<tree, iters, cur, tfail, best>>

Select ==
    /\ UNCHANGED <<round, sample, gameVars>>
    /\ spc = "select"
    /\ \E out \in select(tree, 0, sim) :
          IF out.fail # "none" THEN TreePanic(out.fail)
          ELSE /\ cur' = out.node
               /\ sim' = out.state
               /\ spc' = "expand"
               /\ UNCHANGED <<tree, iters, iter_seed, det, tfail, best>>

Expand ==
    /\ UNCHANGED <<round, sample, gameVars>>
    /\ spc = "expand"
    /\ LET out == expand(tree, cur, sim, iter_seed)
       IN /\ tree' = out.tree
          /\ cur' = out.node
          /\ sim' = out.state
    /\ spc' = "rollout"
    /\ UNCHANGED <<iters, iter_seed, det, tfail, best>>

RolloutStep ==
    /\ UNCHANGED <<round, sample, gameVars>>
    /\ spc = "rollout"
    /\ sim' = Rollout(sim, iter_seed)
    /\ spc' = "backprop"
    /\ UNCHANGED <<tree, iters, iter_seed, det, cur, tfail, best>>

Backprop ==
    /\ UNCHANGED <<round, sample, gameVars>>
    /\ spc = "backprop"
    /\ tree' = Backpropagate(tree, cur, sim, Observer)
    /\ iters' = iters + 1
    /\ spc' = IF iters + 1 < MaxIters THEN "determinize" ELSE "best"
    /\ UNCHANGED <<iter_seed, det, sim, cur, tfail, best>>

\* best_action of the root, for the state of the decision or a
\* determinization of it
BestAction ==
    /\ UNCHANGED <<round, sample, gameVars>>
    /\ spc = "best"
    /\ \E state \in {round} \cup {randomize(round, Observer, seed) : seed \in ShuffleSeeds} :
          LET out == best_action(tree, 0, state)
          IN IF out.fail # "none" THEN TreePanic(out.fail)
             ELSE /\ best' = out.action
                  /\ spc' = "done"
                  /\ UNCHANGED <<tree, iters, iter_seed, det, sim, cur, tfail>>

NextTree ==
    \/ StartSearch
    \/ Determinize
    \/ Select
    \/ Expand
    \/ RolloutStep
    \/ Backprop
    \/ BestAction

SpecTree == InitTree /\ [][NextTree]_vars

\* =============================================================== properties
Hands(r) == UNION {r.player_cards[p] : p \in Players}

\* the four hands and the played cards are pairwise disjoint and cover the deck
Partition(r) ==
    /\ \A p, q \in Players : p # q => r.player_cards[p] \cap r.player_cards[q] = {}
    /\ \A p \in Players : r.player_cards[p] \cap r.played_cards = {}
    /\ Hands(r) \cup r.played_cards = ALL

TrickCards(r) == {r.trick.cards[n][1] : n \in 1..Len(r.trick.cards)}

\* C1: in every state of a round driven by legal actions the four hands and
\* the played cards are pairwise disjoint and their union is the full deck.
C1_Conservation == Partition(round)

C1_Witness ==
    /\ round.phase = "PlayCards"
    /\ Len(round.trick.cards) = 2
    /\ Cardinality(round.played_cards) > NumPlayers

\* C2: right after dealing every hand holds a quarter of the deck, the hands
\* are pairwise disjoint and their union is the full deck; each player's own
\* view of its hand is that hand.
C2_DealPartition ==
    pc = "new" =>
        /\ \A p \in Players :
              /\ Cardinality(round.player_cards[p]) = NumCards \div 4
              /\ Cardinality(players[p]) = NumCards \div NumPlayers
        /\ \A p, q \in Players : p # q => players[p] \cap players[q] = {}
        /\ UNION {players[p] : p \in Players} = ALL
        /\ round.played_cards = {}
        /\ Partition(round)

C2_Witness ==
    /\ pc = "new"
    /\ \E p \in Players : Cardinality({suite(c) : c \in players[p]}) > 1
    /\ players[3] # mask(0)

\* C3: a round played by four random players runs to completion without a
\* fatal check firing: it returns after the pick and TricksPerRound tricks
\* of four cards, in a terminal state with every hand empty.
C3_Safe ==
    /\ failure = "none"
    /\ pc # "panicked"
    /\ pc = "tricks" => Cardinality(round.played_cards) = 4 * trick_no + k
    /\ pc = "returned" =>
          /\ trick_no = TricksPerRound
          /\ Cardinality(round.played_cards) = 4 * TricksPerRound
          /\ is_terminal(round)
          /\ \A p \in Players : round.player_cards[p] = {} /\ players[p] = {}

C3_RoundCompletes == []C3_Safe /\ <>(pc = "returned")

C3_Witness == pc = "returned" /\ is_terminal(round) /\ trick_no = TricksPerRound

\* the winner of four cards stated without the order of play: a trump beats
\* every other suit, the led suit beats the remaining suits, then the rank
Strength(trump, led, c) ==
    (IF suite(c) = trump THEN 2 * NumRanks
     ELSE IF suite(c) = led THEN NumRanks ELSE 0) + rank(c)

Strongest(trump, plays) ==
    CHOOSE n \in 1..Len(plays) :
        \A m \in 1..Len(plays) :
            Strength(trump, suite(plays[1][1]), plays[m][1])
                <= Strength(trump, suite(plays[1][1]), plays[n][1])

\* a step that plays the fourth card of a trick
ResolvesTrick == Len(round.trick.cards) = 3 /\ round'.played_cards # round.played_cards

C4_TrickCredited ==
    ResolvesTrick =>
        LET card == CHOOSE c \in round'.played_cards : c \notin round.played_cards
            plays == Append(round.trick.cards, <<card, round.turn>>)
            team == plays[Strongest(round.trick.trump, plays)][2] % 2
            points == SumValues({plays[n][1] : n \in 1..4})
        IN /\ round'.scores[team] = round.scores[team] + points
           /\ round'.scores[1 - team] = round.scores[1 - team]

\* C4: in a terminal state the two scores sum to the point value of the
\* deck; each resolved trick adds the value of its four cards to the team of
\* its winner and to nobody else.
C4_ScoreTotal ==
    /\ [](/\ round.scores[0] + round.scores[1]
                = SumValues(round.played_cards \ TrickCards(round))
          /\ is_terminal(round) => round.scores[0] + round.scores[1] = DeckValue)
    /\ [][C4_TrickCredited]_vars

C4_Witness ==
    /\ is_terminal(round)
    /\ round.scores[0] > 0
    /\ round.scores[1] > 0

\* C5: when a suit is led and the actor holds a card of it, every possible
\* action is a card of that suit.
C5_FollowSuit ==
    LET led == suite_to_follow(round.trick) IN
    (/\ round.phase = "PlayCards"
     /\ led # None
     /\ has_suite(round.player_cards[round.turn], led))
    => \A a \in Members(possible_actions(round)) :
           a.type = "PlayCard" /\ suite(a.arg) = led

\* the actor also holds a trump and a card of a third suit
C5_Witness ==
    LET led == suite_to_follow(round.trick)
        hand == round.player_cards[round.turn] IN
    /\ round.phase = "PlayCards"
    /\ led # None
    /\ has_suite(hand, led)
    /\ led # round.trick.trump
    /\ has_suite(hand, round.trick.trump)
    /\ winner(round.trick)[2] % 2 # round.turn % 2

\* a trump is active, the other team wins the trick with a trump and the
\* actor holds a higher trump
MustOvertrump ==
    /\ round.phase = "PlayCards"
    /\ round.trick.trump # None
    /\ winner(round.trick) # <<>>
    /\ winner(round.trick)[2] % 2 # round.turn % 2
    /\ suite(winner(round.trick)[1]) = round.trick.trump
    /\ \E c \in round.player_cards[round.turn] :
          suite(c) = round.trick.trump /\ rank(c) > rank(winner(round.trick)[1])

OnlyHigherTrumps ==
    \A a \in Members(possible_actions(round)) :
        /\ a.type = "PlayCard"
        /\ suite(a.arg) = round.trick.trump
        /\ ~(rank(a.arg) < rank(winner(round.trick)[1]))

C7_OwnCards ==
    round.phase = "PlayCards" =>
        \A a \in Members(possible_actions(round)) :
            a.type = "PlayCard" /\ a.arg \in round.player_cards[round.turn]

C7_Witness ==
    /\ round.phase = "PlayCards"
    /\ possible_actions(round).bits # {}
    /\ possible_actions(round).bits # round.player_cards[round.turn]
    /\ Len(round.trick.cards) = 3

\* C8: in every state that is not terminal, determinized or not, the player
\* to move has a possible action.
C8_CanAct ==
    /\ ~is_terminal(round) => len(possible_actions(round)) > 0
    /\ (sample # <<>> /\ ~is_terminal(sample[2]))
          => len(possible_actions(sample[2])) > 0

C8_Witness ==
    /\ sample # <<>>
    /\ sample[2] # round
    /\ sample[2].phase = "PlayCards"
    /\ Len(sample[2].trick.cards) = 3
    /\ possible_actions(sample[2]) # possible_actions(round)

\* C9: while the trump is picked, the no-trump choice is a possible action.
C9_NoTrumpOffered ==
    round.phase = "PickTrump" => has(possible_actions(round), PickTrump(None))

\* C10: randomize(observer) keeps the observer's hand, the played cards and
\* everything but the hands; every other player keeps the size of its hand;
\* the result is a partition of the deck; the round itself is unchanged.
C10_Sample ==
    sample # <<>> =>
        LET observer == sample[1]
            s == sample[2] IN
        /\ s.player_cards[observer] = round.player_cards[observer]
        /\ s.played_cards = round.played_cards
        /\ \A p \in Players :
              Cardinality(s.player_cards[p]) = Cardinality(round.player_cards[p])
        /\ Partition(s)
        /\ [s EXCEPT !.player_cards = round.player_cards] = round

C10_Determinization ==
    /\ []C10_Sample
    /\ [][(sample = <<>> /\ sample' # <<>>) => round' = round]_vars

C10_Witness ==
    /\ sample # <<>>
    /\ sample[2].player_cards # round.player_cards
    /\ Len(round.trick.cards) = 2
    /\ Cardinality(round.played_cards) > NumPlayers

\* C11: in a terminal state the rewards of two perspectives on opposite
\* teams sum to 1.0 (two halves): 1.0 and 0.0 when one team outscored the
\* other, 0.5 each exactly on a tie; one team's perspectives agree.
C11_RewardSymmetry ==
    is_terminal(round) =>
        \A p, q \in Players :
            IF p % 2 # q % 2
            THEN /\ reward(round, p) + reward(round, q) = 2
                 /\ round.scores[p % 2] > round.scores[q % 2]
                       => reward(round, p) = 2 /\ reward(round, q) = 0
                 /\ (reward(round, p) = 1 /\ reward(round, q) = 1)
                       <=> round.scores[0] = round.scores[1]
            ELSE reward(round, p) = reward(round, q)

C11_Witness ==
    /\ is_terminal(round)
    /\ round.scores[1] > round.scores[0]
    /\ round.scores[0] > 0

\* a step that plays a card
PlaysCard == round.phase = "PlayCards" /\ round'.played_cards # round.played_cards

\* C14: the first three cards of a trick pass the turn to the next seat;
\* the fourth card gives the turn to the player of the winning card and
\* leaves the trick empty.
C14_Step ==
    PlaysCard =>
        LET card == CHOOSE c \in round'.played_cards : c \notin round.played_cards
            plays == Append(round.trick.cards, <<card, round.turn>>)
        IN IF Len(round.trick.cards) < 3
           THEN /\ round'.turn = (round.turn + 1) % 4
                /\ round'.trick.cards = plays
           ELSE /\ round'.turn = plays[Strongest(round.trick.trump, plays)][2]
                /\ round'.trick.cards = <<>>

C14_TurnOrder == [][C14_Step]_vars

\* the first trick is resolved and its winner is not the seat after the
\* fourth player
C14_Witness ==
    /\ Cardinality(round.played_cards) = NumPlayers
    /\ round.trick.cards = <<>>
    /\ round.turn # (round.dealer + 1) % 4

\* C15: applying PickTrump(t) switches to PlayCards with trump t; from then
\* on the phase stays PlayCards and the trump stays t, also across the
\* resolution of a trick.
C15_Step ==
    /\ (round.phase = "PickTrump" /\ round' # round) =>
          /\ round'.phase = "PlayCards"
          /\ PickTrump(round'.trick.trump) \in Members(possible_actions(round))
    /\ round.phase = "PlayCards" =>
          /\ round'.phase = "PlayCards"
          /\ round'.trick.trump = round.trick.trump

C15_TrumpFixed == [][C15_Step]_vars

C15_Witness ==
    /\ round.phase = "PlayCards"
    /\ round.trick.trump # None
    /\ round.trick.cards = <<>>
    /\ Cardinality(round.played_cards) = NumPlayers

\* C16: when play_round returns, the dealer is the seat after the dealer
\* it was entered with.
C16_NextDealerAssigned ==
    pc = "returned" => round.dealer = (entry_dealer + 1) % 4

\* a step of setup_for_next_round: the only step that changes the dealer
IsSetup == round'.dealer # round.dealer

\* C17: setup_for_next_round, called in any state, gives the next dealer, the
\* PickTrump phase with the dealer to act, no played cards, scores of zero,
\* a trick without cards and four full, disjoint hands that cover the deck.
C17_Step ==
    IsSetup =>
        /\ round'.dealer = (round.dealer + 1) % 4
        /\ round'.phase = "PickTrump"
        /\ turn(round') = round'.dealer
        /\ round'.turn = (round'.dealer + 1) % 4
        /\ round'.played_cards = {}
        /\ round'.scores = [t \in 0..1 |-> 0]
        /\ round'.trick.cards = <<>>
        /\ \A p \in Players : Cardinality(round'.player_cards[p]) = NumCards \div 4
        /\ Partition(round')
        /\ len(possible_actions(round')) > 0

C17_NextRound == [][C17_Step]_vars

\* a set-up round: the trump of the round before is still recorded
C17_Witness ==
    /\ round.phase = "PickTrump"
    /\ round.trick.trump # None
    /\ round.played_cards = {}

\* the seat play_trick asks to decide
Seat == ((IF k = 0 THEN turn(round) ELSE lo) + k) % 4

\* C18: in play_trick the seat asked to decide is the actor of the state,
\* so the card played leaves that seat's hand in the state and in the
\* player's own view alike.
C18_SeatIsActor ==
    /\ pc = "tricks" => Seat = turn(round)
    /\ pc # "new" => \A p \in Players : players[p] = round.player_cards[p]

C18_Witness ==
    /\ pc = "tricks"
    /\ k = 2
    /\ trick_no > 0
    /\ lo # (round.dealer + 1) % 4

\* the states best_action can be called with: the state of the decision and
\* its determinizations from the seat of the deciding player
DecisionStates ==
    {round} \cup {randomize(round, Observer, seed) : seed \in ShuffleSeeds}

RootChildren == NodeOf(tree, 0).children

\* C12: after the iterations of a search, walked under different
\* determinizations, best_action returns an action that is legal in the
\* state it is called with, and it returns one whenever the root was expanded.
C12_BestLegal ==
    /\ spc = "done" =>
          \A state \in DecisionStates : has(possible_actions(state), best)
    /\ tfail = "best_action" => Len(RootChildren) = 0
    /\ (spc = "best" /\ ~is_terminal(round) /\ iters > 0) => Len(RootChildren) > 0

C12_Witness ==
    /\ spc = "done"
    /\ iters = MaxIters
    /\ Len(RootChildren) > 1
    /\ \E seed \in ShuffleSeeds : randomize(round, Observer, seed) # round

\* C13: best_action returns the action of a legal root child that no legal
\* root child exceeds in visit count.
C13_MostVisited ==
    spc = "done" =>
        \E c \in Range(LegalChildren(tree, 0, possible_actions(round))) :
            /\ get_edge(tree, c)[1] = best
            /\ \A d \in Range(LegalChildren(tree, 0, possible_actions(round))) :
                  NodeOf(tree, d).num_sims <= NodeOf(tree, c).num_sims

\* another root child has a strictly higher average score than the one
\* returned
C13_Witness ==
    /\ spc = "done"
    /\ \E c, d \in Range(RootChildren) :
          /\ get_edge(tree, c)[1] = best
          /\ NodeOf(tree, d).num_sims < NodeOf(tree, c).num_sims
          /\ NodeOf(tree, d).score * NodeOf(tree, c).num_sims
                > NodeOf(tree, c).score * NodeOf(tree, d).num_sims

NodeIds == 0..(tree.index - 1)

\* C19: between complete iterations every node below the root and every
\* node with a child has been visited, and select never fails: it compares
\* no score of an unvisited node and always finds a legal child at a fully
\* expanded node.
C19_SelectSafe ==
    /\ tfail \notin {"unwrap", "partial_cmp"}
    /\ spc \in {"determinize", "select", "best", "done"} =>
          \A n \in NodeIds :
              (n # 0 \/ Len(NodeOf(tree, n).children) > 0)
                  => NodeOf(tree, n).num_sims >= 1

\* select went down from a root with two children, comparing their scores
C19_Witness ==
    /\ spc = "expand"
    /\ cur # 0
    /\ Len(RootChildren) > 1
    /\ tfail = "none"

\* the node ids from the root of node_id down to node_id
RECURSIVE PathTo(_, _)
PathTo(t, node_id) ==
    IF get_parent_id(t, node_id) = None THEN <<node_id>>
    ELSE Append(PathTo(t, get_parent_id(t, node_id)), node_id)

\* the state after the edge actions of path[2..n] are applied to state
RECURSIVE Replay(_, _, _, _)
Replay(t, state, path, n) ==
    IF n <= 1 THEN state
    ELSE apply_action(Replay(t, state, path, n - 1), get_edge(t, path[n])[1])

\* C20: select returns the root or a descendant of it; the state is the
\* input state with the edge actions of the path applied in order; each of
\* them was legal when applied, and every node select left was not terminal
\* and had no untried legal action.
C20_SelectPath ==
    spc = "expand" =>
        LET path == PathTo(tree, cur) IN
        /\ path[1] = 0
        /\ sim = Replay(tree, det, path, Len(path))
        /\ \A n \in 1..(Len(path) - 1) :
              LET live == Replay(tree, det, path, n) IN
              /\ get_parent_id(tree, path[n + 1]) = path[n]
              /\ path[n + 1] \in Range(NodeOf(tree, path[n]).children)
              /\ ~is_terminal(live)
              /\ has(possible_actions(live), get_edge(tree, path[n + 1])[1])
              /\ ~tree_is_terminal(tree, path[n])
              /\ is_fully_expanded(tree, path[n], possible_actions(live))

\* select went down two levels, past a node with a child that is not legal
\* under this determinization
C20_Witness ==
    /\ spc = "expand"
    /\ Len(PathTo(tree, cur)) > 2
    /\ \E n \in NodeIds :
          /\ n # cur
          /\ get_parent_id(tree, n) = get_parent_id(tree, cur)
          /\ ~has(possible_actions(Replay(tree, det, PathTo(tree, cur),
                                          Len(PathTo(tree, cur)) - 1)),
                  get_edge(tree, n)[1])

\* the edge actions of the children of node_id
ChildActions(t, node_id) ==
    {get_edge(t, c)[1] : c \in Range(NodeOf(t, node_id).children)}

\* the edge, parent, terminal flag and counters of node n are the same in
\* arenas t and u
SameNode(t, u, n) ==
    /\ NodeOf(u, n).edge = NodeOf(t, n).edge
    /\ NodeOf(u, n).parent = NodeOf(t, n).parent
    /\ NodeOf(u, n).terminal = NodeOf(t, n).terminal
    /\ NodeOf(u, n).num_sims = NodeOf(t, n).num_sims
    /\ NodeOf(u, n).score = NodeOf(t, n).score

\* C21: expand on a terminal state returns node_id and changes neither the
\* arena nor the state; on a non-terminal state with an untried legal action
\* it applies exactly one legal action that is the edge action of no existing
\* child of node_id and adds exactly one node, a child of node_id, whose
\* edge is that action with the actor of the state before it was applied.
C21_Step ==
    (spc = "expand" /\ spc' = "rollout") =>
        /\ is_terminal(sim) => (cur' = cur /\ tree' = tree /\ sim' = sim)
        /\ (~is_terminal(sim)
              /\ has_untried_actions(NodeOf(tree, cur), possible_actions(sim))) =>
              \E a \in Members(possible_actions(sim)) \ ChildActions(tree, cur) :
                  /\ sim' = apply_action(sim, a)
                  /\ tree'.index = tree.index + 1
                  /\ Len(tree'.nodes) = Len(tree.nodes) + 1
                  /\ cur' = tree.index
                  /\ get_edge(tree', cur') = <<a, turn(sim)>>
                  /\ get_parent_id(tree', cur') = cur
                  /\ NodeOf(tree', cur).children
                        = Append(NodeOf(tree, cur).children, cur')
                  /\ \A n \in NodeIds :
                        /\ SameNode(tree, tree', n)
                        /\ n # cur => NodeOf(tree', n) = NodeOf(tree, n)

C21_Expand == [][C21_Step]_vars

\* expand was called on a terminal state at a node below the root and gave
\* the node back
C21_Witness ==
    /\ spc = "rollout"
    /\ is_terminal(sim)
    /\ cur # 0
    /\ NodeOf(tree, cur).num_sims > 0
    /\ tree.index = Len(tree.nodes)

\* expand added a second child to a node
C21_Expanded ==
    /\ spc = "rollout"
    /\ NodeOf(tree, cur).num_sims = 0
    /\ get_parent_id(tree, cur) # None
    /\ Len(NodeOf(tree, get_parent_id(tree, cur)).children) > 1

\* how often child_id occurs in the child ids of node n
Occurrences(t, n, child_id) ==
    Cardinality({i \in 1..Len(NodeOf(t, n).children) :
                    NodeOf(t, n).children[i] = child_id})

\* the arena is a forest: index counts the stored nodes, a parent id is
\* smaller than the id of its child, and a node occurs once in the child
\* ids of its parent and in those of no other node
Forest(t) ==
    /\ t.index = Len(t.nodes)
    /\ \A n \in 0..(Len(t.nodes) - 1) :
          /\ get_parent_id(t, n) # None =>
                /\ get_parent_id(t, n) >= 0
                /\ get_parent_id(t, n) < n
          /\ \A q \in 0..(Len(t.nodes) - 1) :
                Occurrences(t, q, n) = IF get_parent_id(t, n) = q THEN 1 ELSE 0

\* every node of t is a node of u with the same id, edge, parent and
\* terminal flag
Kept(t, u) ==
    /\ Len(u.nodes) >= Len(t.nodes)
    /\ \A n \in 0..(Len(t.nodes) - 1) :
          /\ NodeOf(u, n).edge = NodeOf(t, n).edge
          /\ NodeOf(u, n).parent = NodeOf(t, n).parent
          /\ NodeOf(u, n).terminal = NodeOf(t, n).terminal

C22_Step ==
    IF spc \in {"idle", "done"} /\ spc' \notin {"idle", "done"}
    THEN \* reset, then add_node of the root: id 0, terminal as the state
         /\ reset(tree) = EmptyTree
         /\ tree'.index = 1
         /\ Len(tree'.nodes) = 1
         /\ get_parent_id(tree', 0) = None
         /\ tree_is_terminal(tree', 0) = is_terminal(round)
    ELSE /\ Kept(tree, tree')
         /\ Len(tree'.nodes) # Len(tree.nodes) =>
               \* add_node by expand: the next id, terminal as the state
               /\ Len(tree'.nodes) = Len(tree.nodes) + 1
               /\ cur' = tree.index
               /\ tree_is_terminal(tree', cur') = is_terminal(sim')

\* C22: between two resets the ids given by add_node are 0, 1, 2, ... in
\* call order, index is the number of stored nodes, the arena is a forest
\* without cycles, a node is terminal iff the state at its creation was,
\* no node is removed, and reset leaves an arena with index 0 and no nodes.
C22_Arena ==
    /\ [](Forest(tree) /\ reset(tree).index = 0 /\ Len(reset(tree).nodes) = 0)
    /\ [][C22_Step]_vars

\* an arena with a node that has two children and a grandchild of the root,
\* after update_node calls, which the next search of the decision resets
C22_Witness ==
    /\ spc = "done"
    /\ tree.index > 3
    /\ \E n \in NodeIds : Len(NodeOf(tree, n).children) > 1
    /\ \E n \in NodeIds :
          /\ get_parent_id(tree, n) # None
          /\ get_parent_id(tree, n) # 0
    /\ \E n \in NodeIds : tree_is_terminal(tree, n) = FALSE
    /\ ENABLED StartSearch

\* the sum of the visit counts of the first n children of node_id
RECURSIVE ChildSims(_, _, _)
ChildSims(t, node_id, n) ==
    IF n = 0 THEN 0
    ELSE ChildSims(t, node_id, n - 1)
            + NodeOf(t, NodeOf(t, node_id).children[n]).num_sims

\* the visits of node_id that went to none of its children
OwnSims(t, node_id) ==
    NodeOf(t, node_id).num_sims
        - ChildSims(t, node_id, Len(NodeOf(t, node_id).children))

\* a backpropagation adds one to the own visits of the node the iteration
\* ended at and to those of no other node; no other step changes them
C23_Step ==
    \A n \in NodeIds :
        n < tree'.index =>
            OwnSims(tree', n) =
                IF spc = "backprop" /\ n = cur THEN OwnSims(tree, n) + 1
                ELSE OwnSims(tree, n)

\* C23: after k complete iterations on a fresh arena with a non-terminal
\* root the visit count of the root is k, every node has a visit count of at
\* least 1, and the visit count of a node is the sum of those of its
\* children plus the number of iterations that ended at the node.
C23_VisitCounts ==
    /\ []((spc \in {"determinize", "best", "done"} /\ iters > 0) =>
            /\ ~is_terminal(round)
            /\ NodeOf(tree, 0).num_sims = iters
            /\ \A n \in NodeIds :
                  /\ NodeOf(tree, n).num_sims >= 1
                  /\ OwnSims(tree, n) >= 0
                  /\ n # 0 => OwnSims(tree, n) >= 1)
    /\ [][spc \notin {"idle", "done"} => C23_Step]_vars

\* all iterations are done and one node ended two of them
C23_Witness ==
    /\ spc = "best"
    /\ iters = MaxIters
    /\ \E n \in NodeIds : OwnSims(tree, n) > 1

====
